---------------------------- MODULE Spec2Model ----------------------------
(***************************************************************************)
(* A model of contentful-to-algolia: src/lib/Sync.js (the Sync             *)
(* orchestrator and the Algolia class: snapshot cache, diff, bulk commit)  *)
(* and src/lib/Contentful.js (the locale flattener).                       *)
(*                                                                         *)
(* JavaScript values are modelled as follows.  A plain object is a         *)
(* function from its own keys (strings) to values; every value is a        *)
(* string.  The value `undefined' stored under a key is the string         *)
(* Undefined; a key that the object does not have is not in its DOMAIN.    *)
(* An array is a sequence.  A reference to an element of an array that is  *)
(* mutated in place is the element's position in that array.               *)
(***************************************************************************)
EXTENDS Naturals, Sequences, FiniteSets, TLC

(***************************************************************************)
(* Bounds of the model.                                                    *)
(***************************************************************************)
MaxData == 2      \* longest list of incoming records given to the diff
MaxHits == 2      \* longest snapshot given to the diff
MaxCalls == 2     \* indexData calls made on the Algolia instances
PageSize == 1     \* hits per 'result' event of a scan
MaxGroups == 2    \* fallback groups of the locale configuration

(***************************************************************************)
(* Value domains.                                                          *)
(***************************************************************************)
Undefined == "undefined"
NoFilter == "none"       \* getElementsPromise called without contentType

\* (id, locale) pairs of the records and hits.  ("ab","c") and ("a","bc")
\* are different pairs whose concatenations agree.
EntryIds == {<<"a", "c">>, <<"ab", "c">>, <<"a", "bc">>}
Types == {"page", "post"}
DataTitles == {"A", "B", Undefined}
ObjectIDs == <<"o1", "o2", "o3", "o4", "o5", "o6", "o7", "o8">>

SeqsUpTo(S, n) == UNION {[1..k -> S] : k \in 0..n}
Range(s) == {s[i] : i \in 1..Len(s)}

\* An incoming record, as the flattener hands it over: no objectID key.
Records == {[id |-> p[1], locale |-> p[2], contentType |-> "page", title |-> t] :
              p \in EntryIds, t \in DataTitles}
\* A stored hit without its objectID: it comes from JSON, so it never holds
\* the value undefined; a hit may lack the title key.
HitBodies ==
  {[id |-> p[1], locale |-> p[2], contentType |-> c, title |-> "A"] :
      p \in EntryIds, c \in Types}
  \cup {[id |-> p[1], locale |-> p[2], contentType |-> c] :
      p \in EntryIds, c \in Types}

\* entry.objectID = oid
SetObjectID(entry, oid) == ("objectID" :> oid) @@ entry
\* The entry without its objectID key.
Strip(entry) == [k \in DOMAIN entry \ {"objectID"} |-> entry[k]]
HasObjectID(entry) == "objectID" \in DOMAIN entry /\ entry.objectID # Undefined

\* The index gives every stored object an objectID of its own.
Stored(bodies) == [j \in 1..Len(bodies) |-> SetObjectID(bodies[j], ObjectIDs[j])]

(***************************************************************************)
(* Algolia.getElementsPromise: the diff                                    *)
(***************************************************************************)

\* crypto.createHash('sha256'); update(id); update(locale); digest('hex').
\* The hash context accumulates the bytes of its updates; SHA-256 is
\* modelled as collision free on the accumulated bytes.
HashUpdate(ctx, bytes) == ctx \o bytes
HashDigest(ctx) == "sha256:" \o ctx
getEntryKey(entry) == HashDigest(HashUpdate(HashUpdate("", entry.id), entry.locale))

\* _.keyBy(data, getEntryKey)[key]: the position in data of the last record
\* with that key, 0 when there is none.
entriesIndex(d, key) ==
  LET at == {i \in 1..Len(d) : getEntryKey(d[i]) = key}
  IN IF at = {} THEN 0 ELSE CHOOSE i \in at : \A j \in at : j <= i

\* if (contentType) hits = _.filter(hits, {contentType: contentType})
FilterNoRestrict(h, ct) == h
filterHits(h, ct) ==
  IF ct # NoFilter THEN SelectSeq(h, LAMBDA x : x.contentType = ct) ELSE h

\* _.omitBy(entry, _.isUndefined)
CompactKeepUndefined(entry) == entry
compactEntry(entry) ==
  [k \in {k \in DOMAIN entry : entry[k] # Undefined} |-> entry[k]]

\* One iteration of _.each(hits, ...): st.data are the incoming records
\* (mutated in place), st.updated positions in data, st.deleted objectIDs.
OnHitDeleteAlways(st, hit, ct) ==
  LET i == entriesIndex(st.data, getEntryKey(hit))
  IN IF i # 0
     THEN LET e == SetObjectID(st.data[i], hit.objectID)
          IN [st EXCEPT !.data[i] = e,
                        !.updated = IF compactEntry(e) # hit
                                    THEN Append(@, i) ELSE @]
     ELSE [st EXCEPT !.deleted = Append(@, hit.objectID)]
OnHitNoObjectID(st, hit, ct) ==
  LET i == entriesIndex(st.data, getEntryKey(hit))
  IN IF i # 0
     THEN [st EXCEPT !.updated = IF compactEntry(SetObjectID(st.data[i], hit.objectID)) # hit
                                 THEN Append(@, i) ELSE @]
     ELSE IF ct # NoFilter
          THEN [st EXCEPT !.deleted = Append(@, hit.objectID)]
          ELSE st
onHit(st, hit, ct) ==
  LET i == entriesIndex(st.data, getEntryKey(hit))
  IN IF i # 0
     THEN LET e == SetObjectID(st.data[i], hit.objectID)
          IN [st EXCEPT !.data[i] = e,
                        !.updated = IF compactEntry(e) # hit
                                    THEN Append(@, i) ELSE @]
     ELSE IF ct # NoFilter
          THEN [st EXCEPT !.deleted = Append(@, hit.objectID)]
          ELSE st

RECURSIVE eachHit(_, _, _)
eachHit(h, st, ct) ==
  IF h = <<>> THEN st ELSE eachHit(Tail(h), onHit(st, Head(h), ct), ct)

\* results.created = _.filter(data, (entry) => !entry.objectID): positions
\* in data, in order.
RECURSIVE createdOf(_, _)
createdOf(d, i) ==
  IF i > Len(d) THEN <<>>
  ELSE (IF HasObjectID(d[i]) THEN <<>> ELSE <<i>>) \o createdOf(d, i + 1)

\* The continuation of getElementsPromise on the snapshot: the records as
\* the diff leaves them and the three result lists.
withCreated(st) ==
  [data |-> st.data, created |-> createdOf(st.data, 1),
   updated |-> st.updated, deleted |-> st.deleted]
getElementsThen(d, h, ct) ==
  withCreated(CHOOSE st \in {eachHit(filterHits(h, ct),
                                     [data |-> d, updated |-> <<>>, deleted |-> <<>>],
                                     ct)} : TRUE)

(***************************************************************************)
(* Algolia.indexObjects and the three bulk operations                      *)
(***************************************************************************)
OpKinds == <<"addObjects", "updateObjects", "deleteObjects">>

\* if (objects.length === 0) return {objectIDs: []}
NeverSkips(objects) == FALSE
skipsCall(objects) == Len(objects) = 0

\* addObjects / updateObjects / deleteObjects as indexObjects calls them:
\* either the plain object {objectIDs: []} or a pending promise around one
\* call of the index client.
bulkOperation(objects) ==
  IF skipsCall(objects)
  THEN [state |-> "skipped", called |-> FALSE, input |-> objects, objectIDs |-> <<>>]
  ELSE [state |-> "pending", called |-> TRUE, input |-> objects, objectIDs |-> <<>>]

NoOperation == [state |-> "none", called |-> FALSE, input |-> <<>>, objectIDs |-> <<>>]
NoOperations == [k \in Range(OpKinds) |-> NoOperation]

\* Promise.all over the three operations: rejected as soon as one is,
\* resolved once all are fulfilled (a plain object counts as fulfilled).
PromiseAllButDelete(o) ==
  IF \E k \in {"addObjects", "updateObjects"} : o[k].state = "failed" THEN "rejected"
  ELSE IF \A k \in {"addObjects", "updateObjects"} : o[k].state \in {"ok", "skipped"}
       THEN "resolved" ELSE "pending"
promiseAll(o) ==
  IF \E k \in Range(OpKinds) : o[k].state = "failed" THEN "rejected"
  ELSE IF \A k \in Range(OpKinds) : o[k].state \in {"ok", "skipped"}
       THEN "resolved" ELSE "pending"

\* getMergedObjects: objects = objects.concat(element.objectIDs), in the
\* order of the array given to Promise.all.
RECURSIVE mergeFrom(_, _)
mergeFrom(o, n) ==
  IF n > Len(OpKinds) THEN <<>> ELSE o[OpKinds[n]].objectIDs \o mergeFrom(o, n + 1)
getMergedObjects(o) == mergeFrom(o, 1)

\* The promise indexObjects returns, given the operations' states.
indexObjectsPromise(o) ==
  [state |-> promiseAll(o),
   objectIDs |-> IF promiseAll(o) = "resolved" THEN getMergedObjects(o) ELSE <<>>]

(***************************************************************************)
(* Contentful: the locale flattener                                        *)
(*                                                                         *)
(* A raw entry is [sys |-> [id, contentType], fields |-> F], F a function  *)
(* from field names to mappings from locale codes to values.  The fields   *)
(* of the model's entries hold scalars only: on them _getFields,           *)
(* _cleanMore (which returns at once, _.indexOf of an empty stack being    *)
(* -1) and _cleanLocales change nothing.  The entry under work is          *)
(* [props, hasFields, fields]: its scalar properties, and its `fields'     *)
(* property until `delete entry.fields'.                                   *)
(***************************************************************************)
IsTruthy(v) == v # Undefined /\ v # ""

\* field[currentLocale], undefined when the mapping lacks the code.
At(field, code) == IF code \in DOMAIN field THEN field[code] ELSE Undefined

\* _getLocaleString: locale.forEach((currentLocale) => { if
\* (field[currentLocale] && !localizedField) localizedField = ... })
RECURSIVE localeLoop(_, _, _)
localeLoop(field, codes, localizedField) ==
  IF codes = <<>> THEN localizedField
  ELSE localeLoop(field, Tail(codes),
                  IF IsTruthy(At(field, Head(codes))) /\ ~IsTruthy(localizedField)
                  THEN At(field, Head(codes)) ELSE localizedField)
getLocaleString(field, locale) == localeLoop(field, locale, Undefined)

\* _getFieldsForLocale: every field resolved, then entry.locale = locale[0].
\* `for (let key in fields)' runs no iteration when fields is undefined.
getFieldsForLocale(hasFields, fields, locale) ==
  ("locale" :> locale[1])
  @@ (IF hasFields
      THEN [key \in DOMAIN fields |-> getLocaleString(fields[key], locale)]
      ELSE <<>>)

\* The locale codes of all groups.
RECURSIVE allCodes(_)
allCodes(cfg) == IF cfg = <<>> THEN {} ELSE Range(Head(cfg)) \cup allCodes(Tail(cfg))

\* _cleanEntry(entry): newEntry = entry.sys without space, contentType,
\* type and revision; newEntry.fields = entry.fields, with
\* fields.contentType[code] = contentType for every code of every group
\* when the entry has no field of that name.
cleanEntry(raw, cfg) ==
  [props |-> [id |-> raw.sys.id],
   hasFields |-> TRUE,
   fields |-> IF "contentType" \in DOMAIN raw.fields THEN raw.fields
              ELSE ("contentType" :> [code \in allCodes(cfg) |-> raw.sys.contentType])
                   @@ raw.fields]

\* _.merge(entry, fields) on scalars: a defined source value is assigned;
\* an undefined one only creates the key when the entry lacks it.
merge(props, source) ==
  [key \in DOMAIN props \cup DOMAIN source |->
     IF key \in DOMAIN source /\ (source[key] # Undefined \/ key \notin DOMAIN props)
     THEN source[key] ELSE props[key]]

\* _mergeFields(entry, fields): merge, then delete entry.fields.
mergeFields(obj, source) ==
  [props |-> merge(obj.props, source), hasFields |-> FALSE, fields |-> <<>>]

\* One iteration of this.locales.forEach in _getLocalizedEntries, on the
\* object newEntry refers to.
localize(obj, locale) ==
  mergeFields(obj, getFieldsForLocale(obj.hasFields, obj.fields, locale))

(***************************************************************************)
(* State                                                                   *)
(***************************************************************************)
VARIABLES
  \* -- the diff on its own
  data,          \* the incoming records of the call (mutated by the diff)
  hits,          \* the snapshot the cached promise resolved with
  contentType,   \* the content-type filter of the call, or NoFilter
  results,       \* what the continuation returned
  diffPc,        \* "called" | "done"
  \* -- the destination index (the collaborator)
  index,         \* the objects stored so far; position n holds ObjectIDs[n]
  removed,       \* the objectIDs deleted from the index
  index0,        \* the number of objects stored when the run began
  \* -- the Algolia instances
  cachedResults, \* this.cachedResults: "null", or the promise's state
                 \* "pending" | "resolved" | "rejected"
  browser,       \* the scan: [cursor, results] (the executor's `results')
  browseCount,   \* the number of browseAll() calls made on the instance
  \* -- the indexData calls
  callPc,        \* "idle" | "waiting" | "committing" | "indexed" | "caught"
  callInst,      \* the instance the call was made on
  callFound,     \* this.cachedResults as the call found it
  callData,      \* its records (mutated by the diff)
  callType,      \* its content-type filter, or NoFilter
  callSeen,      \* what its continuation got: [kind, hits]
  callBatch,     \* the result of its diff
  ops,           \* its three bulk operations
  commit,        \* the promise indexObjects returned: [state, objectIDs]
  \* -- the Sync run
  syncPc,        \* "idle" | "fetching" | "each" | "done" | "failed"
  contentTypes,  \* the content types given to sync
  source,        \* the entries the source repository holds
  content,       \* what getEntries resolved with: the groups, in order
  eachPos,       \* the group _.each is at
  scPc,          \* the step singleCallback is at, in singleCallbackSteps
  observed,      \* per content type, the record lists given to the observer
  reports,       \* per indexData call of singleCallback, what became of its
                 \* promise: "none" | "pending" | "logged" | "error"
  \* -- two sync calls on one Sync instance
  thisIndexName, \* this.indexName of the Sync instance
  thisCallback,  \* this.callback of the Sync instance
  runs,          \* per sync call: [pc, types, indexName, callback]
  overlap,       \* the second call was made while the first was fetching
  delivered,     \* what singleCallback did, in order: [run, type, entries,
                 \* callback, indexName]
  \* -- one call of the flattener
  rawEntry,      \* the entry given to _getLocalizedEntries
  locales,       \* this.locales: the fallback groups
  hasLocales,    \* FALSE when this.locales is undefined (no configuration)
  heap,          \* the objects of the call, by reference
  localizedEntries, \* the array of references it returns
  flatPc         \* "idle" | "called" | "forEach" | "done"

diffVars == <<data, hits, contentType, results, diffPc>>
indexVars == <<index, removed, index0>>
algoliaVars == <<cachedResults, browser, browseCount>>
callVars == <<callPc, callInst, callFound, callData, callType, callSeen, callBatch, ops, commit>>
instanceVars == <<thisIndexName, thisCallback, runs, overlap, delivered>>
syncVars ==
  <<syncPc, contentTypes, source, content, eachPos, scPc, observed, reports,
    instanceVars>>
flatVars == <<rawEntry, locales, hasLocales, heap, localizedEntries, flatPc>>
vars == <<diffVars, indexVars, algoliaVars, callVars, syncVars, flatVars>>

Calls == 1..MaxCalls
NoResults == [created |-> <<>>, updated |-> <<>>, deleted |-> <<>>]
NotSeen == [kind |-> "none", hits |-> <<>>]
NoCommit == [state |-> "none", objectIDs |-> <<>>]

DiffIdle ==
  /\ data = <<>> /\ hits = <<>> /\ contentType = NoFilter
  /\ results = NoResults /\ diffPc = "idle"

\* new Algolia(...): this.cachedResults = null; no call made yet.
AlgoliaIdle ==
  /\ cachedResults = [a \in Calls |-> "null"]
  /\ browser = [a \in Calls |-> [cursor |-> 0, results |-> <<>>]]
  /\ browseCount = [a \in Calls |-> 0]
  /\ callPc = [c \in Calls |-> "idle"]
  /\ callInst = [c \in Calls |-> 0]
  /\ callFound = [c \in Calls |-> "null"]
  /\ callData = [c \in Calls |-> <<>>]
  /\ callType = [c \in Calls |-> NoFilter]
  /\ callSeen = [c \in Calls |-> NotSeen]
  /\ callBatch = [c \in Calls |-> NoResults]
  /\ ops = [c \in Calls |-> NoOperations]
  /\ commit = [c \in Calls |-> NoCommit]

IndexIdle == index = <<>> /\ removed = {} /\ index0 = 0

\* new Sync(config): no sync call made yet.
NoRun == [pc |-> "idle", types |-> <<>>, indexName |-> "", callback |-> ""]
InstanceIdle ==
  /\ thisIndexName = Undefined /\ thisCallback = Undefined
  /\ runs = <<NoRun, NoRun>> /\ overlap = FALSE /\ delivered = <<>>

RunIdle ==
  /\ syncPc = "idle" /\ contentTypes = <<>> /\ content = <<>>
  /\ eachPos = 0 /\ scPc = 0
  /\ observed = [t \in Types |-> <<>>]
  /\ reports = [c \in Calls |-> "none"]

SyncIdle == RunIdle /\ source = <<>> /\ InstanceIdle

FlatIdle ==
  /\ rawEntry = [sys |-> [id |-> "", contentType |-> ""], fields |-> <<>>]
  /\ locales = <<>> /\ hasLocales = TRUE
  /\ heap = <<>> /\ localizedEntries = <<>> /\ flatPc = "idle"

(***************************************************************************)
(* The diff on its own: one call of the continuation on given inputs.      *)
(***************************************************************************)
\* The flattener yields one record per entry and locale group: the
\* incoming records have pairwise distinct (id, locale).
DiffInit ==
  /\ data \in {d \in SeqsUpTo(Records, MaxData) :
                 \A i, j \in 1..Len(d) :
                    i # j => <<d[i].id, d[i].locale>> # <<d[j].id, d[j].locale>>}
  /\ \E bodies \in SeqsUpTo(HitBodies, MaxHits) : hits = Stored(bodies)
  /\ contentType \in {NoFilter, "page"}
  /\ results = NoResults
  /\ diffPc = "called"
  /\ IndexIdle /\ AlgoliaIdle /\ SyncIdle /\ FlatIdle

Diff ==
  /\ diffPc = "called"
  /\ \E r \in {getElementsThen(data, hits, contentType)} :
        /\ data' = r.data
        /\ results' = [created |-> r.created, updated |-> r.updated,
                       deleted |-> r.deleted]
  /\ diffPc' = "done"
  /\ UNCHANGED <<hits, contentType, indexVars, algoliaVars, callVars, syncVars, flatVars>>

DiffNext == Diff

SpecDiff == DiffInit /\ [][DiffNext]_vars

(***************************************************************************)
(* The destination index                                                   *)
(***************************************************************************)
PosOf(oid) == CHOOSE n \in 1..Len(ObjectIDs) : ObjectIDs[n] = oid
\* The positions of the stored objects a scan has still to deliver.
Ahead(a) ==
  {n \in 1..Len(index) : n > browser[a].cursor /\ ObjectIDs[n] \notin removed}
RECURSIVE nextPage(_, _)
nextPage(ahead, size) ==
  IF size = 0 \/ ahead = {} THEN <<>>
  ELSE LET n == CHOOSE m \in ahead : \A x \in ahead : m <= x
       IN <<n>> \o nextPage(ahead \ {n}, size - 1)

\* index.addObjects: every object is stored under a new objectID.
addToIndex(objects) ==
  index \o [n \in 1..Len(objects) |->
              SetObjectID(Strip(objects[n]), ObjectIDs[Len(index) + n])]
\* index.saveObjects: every object replaces the one stored under its objectID.
RECURSIVE saveToIndex(_, _)
saveToIndex(idx, objects) ==
  IF objects = <<>> THEN idx
  ELSE saveToIndex([idx EXCEPT ![PosOf(Head(objects).objectID)] = Head(objects)],
                   Tail(objects))

(***************************************************************************)
(* Algolia.indexData / getElementsPromise: the snapshot cache              *)
(***************************************************************************)

\* if (!this.cachedResults): the promise itself is cached, before the scan
\* has delivered anything.
NeedsFetchUntilResolved(a) == cachedResults[a] # "resolved"
needsFetch(a) == cachedResults[a] = "null"

\* The then-callback of sync is running: nothing else runs before it has
\* returned.
InHandler == syncPc = "each"

\* The promise chain of indexData before its catch:
\* getElementsPromise(...).then(indexObjects).
chainPromise(pc) ==
  IF pc = "idle" THEN "none"
  ELSE IF pc = "caught" THEN "rejected"
  ELSE IF pc = "indexed" THEN "fulfilled"
  ELSE "pending"

\* .catch(console.error): console.error returns normally, so the promise
\* the catch returns is fulfilled where the chain was rejected.
CatchRethrows(state) == state
catchConsoleError(state) == IF state = "rejected" THEN "fulfilled" ELSE state

\* The promise indexData returns to its caller.
indexDataPromise(c) == catchConsoleError(chainPromise(callPc[c]))

\* A continuation of a settled promise is queued: it runs before any
\* further event of the index client is handled.
MicrotaskPending ==
  \/ \E c \in Calls : /\ callPc[c] = "waiting"
                      /\ cachedResults[callInst[c]] \in {"resolved", "rejected"}
  \/ \E c \in Calls : /\ reports[c] = "pending"
                      /\ indexDataPromise(c) \in {"fulfilled", "rejected"}

\* indexData(data, contentType) on instance a, up to the point where
\* getElementsPromise has returned this.cachedResults.then(...).
indexData(c, a, d, ct) ==
  /\ callPc[c] = "idle"
  /\ callPc' = [callPc EXCEPT ![c] = "waiting"]
  /\ callInst' = [callInst EXCEPT ![c] = a]
  /\ callFound' = [callFound EXCEPT ![c] = cachedResults[a]]
  /\ callData' = [callData EXCEPT ![c] = d]
  /\ callType' = [callType EXCEPT ![c] = ct]
  /\ IF needsFetch(a)
     THEN /\ cachedResults' = [cachedResults EXCEPT ![a] = "pending"]
          /\ browser' = [browser EXCEPT ![a] = [cursor |-> 0, results |-> <<>>]]
          /\ browseCount' = [browseCount EXCEPT ![a] = @ + 1]
     ELSE UNCHANGED <<cachedResults, browser, browseCount>>
  /\ UNCHANGED <<callSeen, callBatch, ops, commit>>

\* browser.on('result'): results = _.concat(results, content.hits)
BrowseResult(a) ==
  /\ ~InHandler
  /\ cachedResults[a] = "pending"
  /\ ~MicrotaskPending
  /\ Ahead(a) # {}
  /\ \E page \in {nextPage(Ahead(a), PageSize)} :
        browser' = [browser EXCEPT
                      ![a].results = @ \o [n \in 1..Len(page) |-> index[page[n]]],
                      ![a].cursor = page[Len(page)]]
  /\ UNCHANGED <<cachedResults, browseCount, diffVars, indexVars, callVars>>
  /\ UNCHANGED <<syncVars, flatVars>>

\* browser.on('end'): resolve(results)
BrowseEnd(a) ==
  /\ ~InHandler
  /\ cachedResults[a] = "pending"
  /\ ~MicrotaskPending
  /\ Ahead(a) = {}
  /\ cachedResults' = [cachedResults EXCEPT ![a] = "resolved"]
  /\ UNCHANGED <<browser, browseCount, diffVars, indexVars, callVars>>
  /\ UNCHANGED <<syncVars, flatVars>>

\* browser.on('error'): reject(err)
BrowseError(a) ==
  /\ ~InHandler
  /\ cachedResults[a] = "pending"
  /\ ~MicrotaskPending
  /\ cachedResults' = [cachedResults EXCEPT ![a] = "rejected"]
  /\ UNCHANGED <<browser, browseCount, diffVars, indexVars, callVars>>
  /\ UNCHANGED <<syncVars, flatVars>>

\* The records the positions refer to.
Deref(d, positions) == [n \in 1..Len(positions) |-> d[positions[n]]]

\* indexObjects(created, updated, deleted): the three operations are
\* called one after the other, then Promise.all waits for them.
IndexObjectsAddFirst(r) ==
  [addObjects |-> bulkOperation(Deref(r.data, r.created)),
   updateObjects |-> NoOperation,
   deleteObjects |-> NoOperation]
indexObjects(r) ==
  [addObjects |-> bulkOperation(Deref(r.data, r.created)),
   updateObjects |-> bulkOperation(Deref(r.data, r.updated)),
   deleteObjects |-> bulkOperation(r.deleted)]

\* this.cachedResults.then(function (hits) {...}): the continuation runs
\* only when the executor has called resolve(results), on the scan's end.
SnapshotReadyOnFirstPage(a) ==
  cachedResults[a] = "resolved"
  \/ (cachedResults[a] = "pending" /\ Len(browser[a].results) > 0)
snapshotReady(a) == cachedResults[a] = "resolved"

\* The continuation of the cached promise for one call, once the snapshot
\* is there: the diff, then indexObjects on its result.
ThenCallback(c) ==
  /\ ~InHandler
  /\ callPc[c] = "waiting"
  /\ snapshotReady(callInst[c])
  /\ \E h \in {browser[callInst[c]].results} :
     \E r \in {getElementsThen(callData[c], h, callType[c])} :
     \E o \in {indexObjects(r)} :
        /\ callSeen' = [callSeen EXCEPT ![c] = [kind |-> "hits", hits |-> h]]
        /\ callData' = [callData EXCEPT ![c] = r.data]
        /\ callBatch' = [callBatch EXCEPT ![c] =
                           [created |-> r.created, updated |-> r.updated,
                            deleted |-> r.deleted]]
        /\ ops' = [ops EXCEPT ![c] = o]
        /\ commit' = [commit EXCEPT ![c] = indexObjectsPromise(o)]
        /\ callPc' = [callPc EXCEPT ![c] =
                        IF promiseAll(o) = "resolved" THEN "indexed" ELSE "committing"]
  /\ UNCHANGED <<callInst, callFound, callType, diffVars, indexVars, algoliaVars>>
  /\ UNCHANGED <<syncVars, flatVars>>

\* The snapshot promise was rejected: the continuation is skipped and
\* indexData's .catch(console.error) takes the error.
CatchSnapshot(c) ==
  /\ ~InHandler
  /\ callPc[c] = "waiting"
  /\ cachedResults[callInst[c]] = "rejected"
  /\ callSeen' = [callSeen EXCEPT ![c] = [kind |-> "error", hits |-> <<>>]]
  /\ callPc' = [callPc EXCEPT ![c] = "caught"]
  /\ UNCHANGED <<callInst, callFound, callData, callType, callBatch, ops, commit,
                 diffVars, indexVars, algoliaVars>>
  /\ UNCHANGED <<syncVars, flatVars>>

\* What the index does with an operation that succeeds, and the objectIDs
\* it reports.
applied(k, objects) ==
  IF k = "addObjects"
  THEN [index |-> addToIndex(objects), removed |-> removed,
        objectIDs |-> [n \in 1..Len(objects) |-> ObjectIDs[Len(index) + n]]]
  ELSE IF k = "updateObjects"
  THEN [index |-> saveToIndex(index, objects),
        removed |-> removed \ {objects[n].objectID : n \in 1..Len(objects)},
        objectIDs |-> [n \in 1..Len(objects) |-> objects[n].objectID]]
  ELSE [index |-> index, removed |-> removed \cup Range(objects),
        objectIDs |-> objects]

\* The index client's callback of one bulk operation, without an error:
\* resolve(content); indexObjects' promise follows.
OperationSucceeds(c, k) ==
  /\ ~InHandler
  /\ ops[c][k].state = "pending"
  /\ ~MicrotaskPending
  /\ k = "addObjects" => Len(index) + Len(ops[c][k].input) <= Len(ObjectIDs)
  /\ \E done \in {applied(k, ops[c][k].input)} :
        /\ index' = done.index
        /\ removed' = done.removed
        /\ ops' = [ops EXCEPT ![c][k].state = "ok",
                              ![c][k].objectIDs = done.objectIDs]
  /\ commit' = [commit EXCEPT ![c] = indexObjectsPromise(ops'[c])]
  /\ callPc' = [callPc EXCEPT ![c] =
                  IF commit'[c].state = "resolved" THEN "indexed" ELSE @]
  /\ UNCHANGED <<index0, callInst, callFound, callData, callType, callSeen, callBatch,
                 diffVars, algoliaVars>>
  /\ UNCHANGED <<syncVars, flatVars>>

\* The index client's callback with an error: reject(error); Promise.all is
\* rejected and indexData's .catch(console.error) takes the error.
OperationFails(c, k) ==
  /\ ~InHandler
  /\ ops[c][k].state = "pending"
  /\ ~MicrotaskPending
  /\ ops' = [ops EXCEPT ![c][k].state = "failed"]
  /\ commit' = [commit EXCEPT ![c] = indexObjectsPromise(ops'[c])]
  /\ callPc' = [callPc EXCEPT ![c] = "caught"]
  /\ UNCHANGED <<callInst, callFound, callData, callType, callSeen, callBatch,
                 diffVars, indexVars, algoliaVars>>
  /\ UNCHANGED <<syncVars, flatVars>>

(***************************************************************************)
(* One Algolia instance used directly: indexData is called on it up to     *)
(* MaxCalls times, at any moment.                                          *)
(***************************************************************************)
Rec(id, title) == [id |-> id, locale |-> "c", contentType |-> "page", title |-> title]
Hit(id, type, title) == [id |-> id, locale |-> "c", contentType |-> type, title |-> title]
CallData == {<<>>, <<Rec("a", "A")>>, <<Rec("a", "B"), Rec("ab", "A")>>}
CallTypes == {NoFilter, "page"}
InitialIndexes ==
  {<<>>, Stored(<<Hit("a", "page", "A")>>),
   Stored(<<Hit("a", "page", "A"), Hit("b", "page", "A")>>)}

AlgoliaInit ==
  /\ index \in InitialIndexes /\ removed = {} /\ index0 = Len(index)
  /\ AlgoliaIdle /\ DiffIdle /\ SyncIdle /\ FlatIdle

\* instance.indexData(data, contentType), the calls numbered as made.
IndexData(c) ==
  /\ \A b \in Calls : b < c => callPc[b] # "idle"
  /\ ~MicrotaskPending
  /\ \E d \in CallData, ct \in CallTypes : indexData(c, 1, d, ct)
  /\ UNCHANGED <<diffVars, indexVars, syncVars, flatVars>>

AlgoliaNext ==
  \/ \E c \in Calls : IndexData(c)
  \/ \E a \in Calls : BrowseResult(a)
  \/ \E a \in Calls : BrowseEnd(a)
  \/ \E a \in Calls : BrowseError(a)
  \/ \E c \in Calls : ThenCallback(c)
  \/ \E c \in Calls : CatchSnapshot(c)
  \/ \E c \in Calls, k \in Range(OpKinds) : OperationSucceeds(c, k)
  \/ \E c \in Calls, k \in Range(OpKinds) : OperationFails(c, k)

SpecAlgolia == AlgoliaInit /\ [][AlgoliaNext]_vars

(***************************************************************************)
(* Contentful._getLocalizedEntries, one call                               *)
(***************************************************************************)
LocaleCodes == {"en", "de", "fr"}
FieldValues == {"A", "B", ""}
\* A field's mapping: a value under some of the locale codes.
FieldMaps == UNION {[S -> FieldValues] : S \in SUBSET LocaleCodes}
\* A fallback group: locale codes in fallback order.
Groups ==
  {<<c>> : c \in LocaleCodes}
  \cup {g \in LocaleCodes \X LocaleCodes : g[1] # g[2]}
RawEntries ==
  {[sys |-> [id |-> "a", contentType |-> t], fields |-> [title |-> f]] :
     t \in Types, f \in FieldMaps}

\* let newEntry = entry: the reference is copied, not the object.
entryRef == 1
newEntryRef(ref) == ref

FlatInit ==
  /\ rawEntry \in RawEntries
  /\ locales \in {cfg \in SeqsUpTo(Groups, MaxGroups) :
                    \A i, j \in 1..Len(cfg) : i # j => cfg[i][1] # cfg[j][1]}
  /\ hasLocales \in BOOLEAN
  /\ ~hasLocales => locales = <<>>
  /\ heap = <<>> /\ localizedEntries = <<>> /\ flatPc = "called"
  /\ DiffIdle /\ IndexIdle /\ AlgoliaIdle /\ SyncIdle

\* entry = this._cleanEntry(entry).  The entries of the model have no
\* field named contentType, so _cleanEntry goes on to
\* this.locales.forEach(...), which throws a TypeError when this.locales
\* is undefined; the exception leaves _getLocalizedEntries.
CleanEntry ==
  /\ flatPc = "called"
  /\ IF hasLocales
     THEN /\ heap' = (entryRef :> cleanEntry(rawEntry, locales))
          /\ flatPc' = IF locales = <<>> THEN "done" ELSE "forEach"
     ELSE /\ heap' = heap
          /\ flatPc' = "threw"
  /\ UNCHANGED <<rawEntry, locales, hasLocales, localizedEntries>>
  /\ UNCHANGED <<diffVars, indexVars, algoliaVars, callVars, syncVars>>

\* One iteration of this.locales.forEach: the fields are resolved and
\* merged into the object newEntry refers to, and newEntry is pushed.
ForEachLocale ==
  /\ flatPc = "forEach"
  /\ \E ref \in {newEntryRef(entryRef)} :
     \E locale \in {locales[Len(localizedEntries) + 1]} :
        /\ heap' = [heap EXCEPT ![ref] = localize(heap[ref], locale)]
        /\ localizedEntries' = Append(localizedEntries, ref)
  /\ flatPc' = IF Len(localizedEntries') = Len(locales) THEN "done" ELSE "forEach"
  /\ UNCHANGED <<rawEntry, locales, hasLocales>>
  /\ UNCHANGED <<diffVars, indexVars, algoliaVars, callVars, syncVars>>

FlatNext == CleanEntry \/ ForEachLocale

SpecFlatten == FlatInit /\ [][FlatNext]_vars

\* The whole of _getLocalizedEntries: the records the returned references
\* lead to, all of them the one object every iteration worked on.
RECURSIVE forEachLocale(_, _)
forEachLocale(obj, cfg) ==
  IF cfg = <<>> THEN obj ELSE forEachLocale(localize(obj, Head(cfg)), Tail(cfg))
getLocalizedEntries(raw, cfg) ==
  [n \in 1..Len(cfg) |-> forEachLocale(cleanEntry(raw, cfg), cfg).props]

(***************************************************************************)
(* Contentful.getEntries (entryId and manipulateSingle left at false)      *)
(***************************************************************************)
RECURSIVE flattenAll(_, _)
flattenAll(entries, cfg) ==
  IF entries = <<>> THEN <<>>
  ELSE getLocalizedEntries(Head(entries), cfg) \o flattenAll(Tail(entries), cfg)

\* .groupBy('contentType'): the groups in the order their keys first occur.
RECURSIVE groupBy(_, _)
groupBy(records, groups) ==
  IF records = <<>> THEN groups
  ELSE LET r == Head(records)
           at == {g \in 1..Len(groups) : groups[g].type = r.contentType}
       IN groupBy(Tail(records),
                  IF at = {}
                  THEN Append(groups, [type |-> r.contentType, entries |-> <<r>>])
                  ELSE [g \in 1..Len(groups) |->
                          IF g \in at
                          THEN [groups[g] EXCEPT !.entries = Append(@, r)]
                          ELSE groups[g]])

getEntries(entries, types, cfg) ==
  groupBy(flattenAll(SelectSeq(entries,
                               LAMBDA e : e.sys.contentType \in Range(types)),
                     cfg),
          <<>>)

(***************************************************************************)
(* Sync.sync and Sync.singleCallback                                       *)
(***************************************************************************)
Entry(id, type, title) ==
  [sys |-> [id |-> id, contentType |-> type], fields |-> [title |-> [c |-> title]]]
Sources ==
  {<<Entry("a", "page", "A")>>,
   <<Entry("a", "page", "B"), Entry("d", "post", "A")>>,
   <<Entry("a", "page", "A"), Entry("d", "post", "A"), Entry("ab", "page", "A")>>}
TypeLists == {<<"page">>, <<"page", "post">>, <<"post", "page">>}
\* config.locales of the run: one fallback group.
ConfigLocales == <<<<"c">>>>

\* singleCallback: this.callback(content), then new Algolia(...).indexData.
singleCallbackSteps == <<"callback", "indexData">>

\* new Algolia(this.config.algolia, this.indexName) in the singleCallback of
\* group g: an instance of its own, with its own cachedResults.
SharedAlgolia(g) == 1
newAlgolia(g) == g

SyncInit ==
  /\ source \in Sources
  /\ index \in InitialIndexes /\ removed = {} /\ index0 = Len(index)
  /\ syncPc = "idle" /\ contentTypes = <<>> /\ content = <<>>
  /\ eachPos = 0 /\ scPc = 0
  /\ observed = [t \in Types |-> <<>>]
  /\ reports = [c \in Calls |-> "none"]
  /\ InstanceIdle
  /\ AlgoliaIdle /\ DiffIdle /\ FlatIdle

\* sync(contentTypes, indexName, callback): getEntries is called.
SyncCall ==
  /\ syncPc = "idle"
  /\ contentTypes' \in TypeLists
  /\ syncPc' = "fetching"
  /\ UNCHANGED <<source, content, eachPos, scPc, observed, reports, instanceVars>>
  /\ UNCHANGED <<diffVars, indexVars, algoliaVars, callVars, flatVars>>

\* getEntries resolves: the then-callback starts _.each over the groups.
GetEntriesResolves ==
  /\ syncPc = "fetching"
  /\ content' = getEntries(source, contentTypes, ConfigLocales)
  /\ IF content' = <<>>
     THEN syncPc' = "done" /\ eachPos' = 0 /\ scPc' = 0
     ELSE syncPc' = "each" /\ eachPos' = 1 /\ scPc' = 1
  /\ UNCHANGED <<source, contentTypes, observed, reports, instanceVars>>
  /\ UNCHANGED <<diffVars, indexVars, algoliaVars, callVars, flatVars>>

\* getEntries is rejected: .catch(console.error).
GetEntriesRejects ==
  /\ syncPc = "fetching"
  /\ syncPc' = "failed"
  /\ UNCHANGED <<source, contentTypes, content, eachPos, scPc, observed, reports, instanceVars>>
  /\ UNCHANGED <<diffVars, indexVars, algoliaVars, callVars, flatVars>>

\* The step after the current one: the next step of singleCallback, the
\* next group, or the end of _.each.
Advance ==
  IF scPc < Len(singleCallbackSteps)
  THEN syncPc' = "each" /\ eachPos' = eachPos /\ scPc' = scPc + 1
  ELSE IF eachPos < Len(content)
       THEN syncPc' = "each" /\ eachPos' = eachPos + 1 /\ scPc' = 1
       ELSE syncPc' = "done" /\ eachPos' = 0 /\ scPc' = 0

\* this.callback && this.callback(content): the observer returns, or it
\* throws, which ends _.each and the then-callback (.catch(console.error)).
InvokeObserver ==
  /\ syncPc = "each"
  /\ singleCallbackSteps[scPc] = "callback"
  /\ observed' = [observed EXCEPT ![content[eachPos].type] =
                    Append(@, content[eachPos].entries)]
  /\ \E throws \in BOOLEAN :
        IF throws
        THEN syncPc' = "failed" /\ eachPos' = 0 /\ scPc' = 0
        ELSE Advance
  /\ UNCHANGED <<source, contentTypes, content, reports, instanceVars>>
  /\ UNCHANGED <<diffVars, indexVars, algoliaVars, callVars, flatVars>>

\* new Algolia(this.config.algolia, this.indexName).indexData(content): a
\* new instance for the group, and indexData without a content type; the
\* promise it returns gets .then(report).catch(console.error).
IndexGroup ==
  /\ syncPc = "each"
  /\ singleCallbackSteps[scPc] = "indexData"
  /\ indexData(eachPos, newAlgolia(eachPos), content[eachPos].entries, NoFilter)
  /\ reports' = [reports EXCEPT ![eachPos] = "pending"]
  /\ Advance
  /\ UNCHANGED <<source, contentTypes, content, observed, instanceVars>>
  /\ UNCHANGED <<diffVars, indexVars, flatVars>>

\* The promise indexData returned to singleCallback is settled: fulfilled,
\* the then-callback logs `Indexed type: ${type}'; rejected, the report is
\* skipped and .catch(console.error) takes the error.
SingleCallbackSettles(c) ==
  /\ ~InHandler
  /\ reports[c] = "pending"
  /\ indexDataPromise(c) \in {"fulfilled", "rejected"}
  /\ reports' = [reports EXCEPT ![c] =
                   IF indexDataPromise(c) = "fulfilled" THEN "logged" ELSE "error"]
  /\ UNCHANGED <<syncPc, contentTypes, source, content, eachPos, scPc, observed, instanceVars>>
  /\ UNCHANGED <<diffVars, indexVars, algoliaVars, callVars, flatVars>>

SyncNext ==
  \/ SyncCall
  \/ GetEntriesResolves
  \/ GetEntriesRejects
  \/ InvokeObserver
  \/ IndexGroup
  \/ \E a \in Calls : BrowseResult(a)
  \/ \E a \in Calls : BrowseEnd(a)
  \/ \E a \in Calls : BrowseError(a)
  \/ \E c \in Calls : ThenCallback(c)
  \/ \E c \in Calls : CatchSnapshot(c)
  \/ \E c \in Calls, k \in Range(OpKinds) : OperationSucceeds(c, k)
  \/ \E c \in Calls, k \in Range(OpKinds) : OperationFails(c, k)
  \/ \E c \in Calls : SingleCallbackSettles(c)

SpecSync == SyncInit /\ [][SyncNext]_vars

(***************************************************************************)
(* Two sync calls on one Sync instance.  What singleCallback does with a   *)
(* group is recorded, not carried out: the observer it invokes and the     *)
(* index name it gives to new Algolia.  The observers return normally.     *)
(***************************************************************************)
Runs == {1, 2}
IndexNames == {"idx1", "idx2"}
Observers == {"cb1", "cb2"}

\* singleCallback(type, entries) of run n: this.callback(content), then
\* new Algolia(this.config.algolia, this.indexName).indexData(content),
\* both read from the instance when the callback runs.
singleCallback(n, group, callback, indexName) ==
  [run |-> n, type |-> group.type, entries |-> group.entries,
   callback |-> callback, indexName |-> indexName]

\* _.each(content, (entries, type) => this.singleCallback(type, entries))
eachGroup(n, groups, callback, indexName) ==
  [g \in 1..Len(groups) |-> singleCallback(n, groups[g], callback, indexName)]

InstanceInit ==
  /\ source \in Sources
  /\ RunIdle /\ InstanceIdle
  /\ DiffIdle /\ IndexIdle /\ AlgoliaIdle /\ FlatIdle

\* sync(contentTypes, indexName, callback): the arguments are stored on
\* the instance and getEntries is called.
SyncCalled(n) ==
  /\ runs[n].pc = "idle"
  /\ \A m \in Runs : m < n => runs[m].pc # "idle"
  /\ \E types \in TypeLists, indexName \in IndexNames, callback \in Observers :
        /\ thisIndexName' = indexName
        /\ thisCallback' = callback
        /\ runs' = [runs EXCEPT ![n] = [pc |-> "fetching", types |-> types,
                                        indexName |-> indexName,
                                        callback |-> callback]]
  /\ overlap' = (overlap \/ \E m \in Runs : m < n /\ runs[m].pc = "fetching")
  /\ UNCHANGED <<delivered, syncPc, contentTypes, source, content, eachPos, scPc,
                 observed, reports>>
  /\ UNCHANGED <<diffVars, indexVars, algoliaVars, callVars, flatVars>>

\* getEntries of run n resolves: the then-callback runs singleCallback for
\* every group.
SyncThen(n) ==
  /\ runs[n].pc = "fetching"
  /\ delivered' = delivered \o eachGroup(n, getEntries(source, runs[n].types, ConfigLocales),
                                         thisCallback, thisIndexName)
  /\ runs' = [runs EXCEPT ![n].pc = "done"]
  /\ UNCHANGED <<thisIndexName, thisCallback, overlap, syncPc, contentTypes, source,
                 content, eachPos, scPc, observed, reports>>
  /\ UNCHANGED <<diffVars, indexVars, algoliaVars, callVars, flatVars>>

\* getEntries of run n is rejected: .catch(console.error).
SyncCatch(n) ==
  /\ runs[n].pc = "fetching"
  /\ runs' = [runs EXCEPT ![n].pc = "failed"]
  /\ UNCHANGED <<thisIndexName, thisCallback, overlap, delivered, syncPc, contentTypes,
                 source, content, eachPos, scPc, observed, reports>>
  /\ UNCHANGED <<diffVars, indexVars, algoliaVars, callVars, flatVars>>

InstanceNext ==
  \/ \E n \in Runs : SyncCalled(n)
  \/ \E n \in Runs : SyncThen(n)
  \/ \E n \in Runs : SyncCatch(n)

SpecInstance == InstanceInit /\ [][InstanceNext]_vars

(***************************************************************************)
(* Claims about the diff (checked under SpecDiff).                         *)
(***************************************************************************)
Restricted == filterHits(hits, contentType)
DiffDone == diffPc = "done"
SameKey(entry, hit) == getEntryKey(entry) = getEntryKey(hit)
\* The position is in the list of positions.
Listed(i, list) == i \in Range(list)
Occurrences(i, list) == Cardinality({n \in 1..Len(list) : list[n] = i})
DistinctIdLocale ==
  \A i, j \in 1..Len(data) :
     i # j => <<data[i].id, data[i].locale>> # <<data[j].id, data[j].locale>>
\* No other incoming record, and no other hit of the restricted snapshot,
\* has the fingerprint of record i and hit j.
OnlyRecord(i) ==
  \A n \in 1..Len(data) : n # i => getEntryKey(data[n]) # getEntryKey(data[i])
OnlyHit(R, j) ==
  \A n \in 1..Len(R) : n # j => getEntryKey(R[n]) # getEntryKey(R[j])
\* The record as it came in equals the hit once its undefined fields are
\* dropped (the hit's objectID apart).
EqualFields(entry, hit) ==
  LET defined == {k \in DOMAIN Strip(entry) : entry[k] # Undefined}
  IN /\ defined = DOMAIN hit \ {"objectID"}
     /\ \A k \in defined : entry[k] = hit[k]
\* A field of the record with a defined value that the hit lacks or holds
\* with another value.
DefinedFieldDiffers(entry, hit) ==
  \E k \in DOMAIN Strip(entry) :
     /\ entry[k] # Undefined
     /\ (k \notin DOMAIN hit \/ hit[k] # entry[k])

\* C1: for incoming records with pairwise distinct (id, locale) and no
\* objectID, `created' is exactly the set of incoming records whose
\* fingerprint matches no hit of the (restricted) snapshot.
C1_CreatedAreTheUnmatched ==
  (DiffDone /\ DistinctIdLocale) =>
     Range(results.created) =
        {i \in 1..Len(data) :
           \A j \in 1..Len(Restricted) : ~SameKey(data[i], Restricted[j])}

\* C2 as stated: a record whose fingerprint matches a hit and whose fields,
\* undefined ones dropped, equal the hit's is in none of created, updated,
\* deleted.
C2_EqualIsUnchanged_AsStated ==
  DiffDone =>
    \A R \in {Restricted} : \A i \in 1..Len(data), j \in 1..Len(R) :
       (SameKey(data[i], R[j]) /\ EqualFields(data[i], R[j]))
       => /\ ~Listed(i, results.created)
          /\ ~Listed(i, results.updated)
          /\ ~Listed(R[j].objectID, results.deleted)

\* C2 amended: the same, when the record is the only incoming record and
\* the hit the only hit of the restricted snapshot with that fingerprint.
C2_EqualIsUnchanged ==
  DiffDone =>
    \A R \in {Restricted} : \A i \in 1..Len(data), j \in 1..Len(R) :
       (/\ SameKey(data[i], R[j])
        /\ EqualFields(data[i], R[j])
        /\ OnlyRecord(i) /\ OnlyHit(R, j))
       => /\ ~Listed(i, results.created)
          /\ ~Listed(i, results.updated)
          /\ ~Listed(R[j].objectID, results.deleted)

\* A record with an undefined title matched to a hit without a title.
C2_Witness ==
  /\ DiffDone
  /\ \E R \in {Restricted} : \E i \in 1..Len(data), j \in 1..Len(R) :
        /\ SameKey(data[i], R[j])
        /\ EqualFields(data[i], R[j])
        /\ OnlyRecord(i) /\ OnlyHit(R, j)
        /\ data[i].title = Undefined
        /\ Len(data) = 2 /\ Len(R) = 2

\* C3 as stated: a record whose fingerprint matches a hit and that differs
\* from it in a defined field is in `updated' exactly once, not in
\* `created', and carries that hit's objectID.
C3_DifferingIsUpdated_AsStated ==
  DiffDone =>
    \A R \in {Restricted} : \A i \in 1..Len(data), j \in 1..Len(R) :
       (SameKey(data[i], R[j]) /\ DefinedFieldDiffers(data[i], R[j]))
       => /\ Occurrences(i, results.updated) = 1
          /\ ~Listed(i, results.created)
          /\ HasObjectID(data[i])
          /\ data[i].objectID = R[j].objectID

\* C3 amended: the same, when the record is the only incoming record and
\* the hit the only hit of the restricted snapshot with that fingerprint.
C3_DifferingIsUpdated ==
  DiffDone =>
    \A R \in {Restricted} : \A i \in 1..Len(data), j \in 1..Len(R) :
       (/\ SameKey(data[i], R[j])
        /\ DefinedFieldDiffers(data[i], R[j])
        /\ OnlyRecord(i) /\ OnlyHit(R, j))
       => /\ Occurrences(i, results.updated) = 1
          /\ ~Listed(i, results.created)
          /\ HasObjectID(data[i])
          /\ data[i].objectID = R[j].objectID

\* A record with title "B" matched to the second hit, whose title is "A".
C3_Witness ==
  /\ DiffDone
  /\ \E R \in {Restricted} : \E i \in 1..Len(data) :
        /\ Len(R) = 2
        /\ SameKey(data[i], R[2])
        /\ OnlyRecord(i) /\ OnlyHit(R, 2)
        /\ data[i].title = "B"
        /\ "title" \in DOMAIN R[2] /\ R[2].title = "A"
        /\ Listed(i, results.updated)

\* C4: a hit that no incoming record matches is in `deleted' when the call
\* has a content-type filter and the hit is of that type; without a filter
\* `deleted' is empty; `deleted' only ever holds objectIDs of hits whose
\* contentType is the filter.
C4_DeletedOnlyUnderFilter ==
  DiffDone =>
    /\ contentType # NoFilter =>
         \A j \in 1..Len(hits) :
            (/\ hits[j].contentType = contentType
             /\ \A i \in 1..Len(data) : ~SameKey(data[i], hits[j]))
            => Listed(hits[j].objectID, results.deleted)
    /\ contentType = NoFilter => results.deleted = <<>>
    /\ \A o \in Range(results.deleted) :
          \E j \in 1..Len(hits) :
             hits[j].objectID = o /\ hits[j].contentType = contentType

\* A filtered call whose snapshot holds an unmatched hit of the filter's
\* type and an unmatched hit of another type.
C4_Witness ==
  /\ DiffDone
  /\ contentType = "page"
  /\ Len(data) > 0
  /\ \E j, n \in 1..Len(hits) :
        /\ hits[j].contentType = "page"
        /\ hits[n].contentType = "post"
        /\ \A i \in 1..Len(data) : ~SameKey(data[i], hits[j]) /\ ~SameKey(data[i], hits[n])
        /\ results.deleted = <<hits[j].objectID>>

(***************************************************************************)
(* Claims about one Algolia instance (checked under SpecAlgolia).          *)
(***************************************************************************)
Observed(c) == callSeen[c].kind # "none"

\* C5: on one instance, whatever the number and interleaving of the
\* snapshot requests, browseAll is started at most once and all callers
\* get the same hit list, or the same failure.
C5_SingleFlight ==
  /\ \A a \in Calls : browseCount[a] <= 1
  /\ \A c, b \in Calls :
        (Observed(c) /\ Observed(b) /\ callInst[c] = callInst[b])
        => callSeen[c] = callSeen[b]

\* The first call started the scan, the second call was made once the
\* scan had ended and the first call's new object was stored, and both
\* got the same two hits.
C5_Witness ==
  /\ callFound[1] = "null" /\ callFound[2] = "resolved"
  /\ callInst[1] = callInst[2]
  /\ Len(index) > index0
  /\ callSeen[1].kind = "hits" /\ callSeen[2].kind = "hits"
  /\ Len(callSeen[2].hits) = 2
  /\ browseCount[callInst[1]] = 1

\* C7: a bulk operation whose input is empty makes no call to the index
\* client and contributes an empty identifier list; indexObjects on three
\* empty lists makes no call and resolves with an empty list.
C7_EmptyInputNoCall ==
  \A c \in Calls :
     /\ \A k \in Range(OpKinds) :
           (ops[c][k].state # "none" /\ Len(ops[c][k].input) = 0)
           => /\ ~ops[c][k].called
              /\ ops[c][k].state = "skipped"
              /\ ops[c][k].objectIDs = <<>>
     /\ (/\ \A k \in Range(OpKinds) : ops[c][k].state # "none"
         /\ \A k \in Range(OpKinds) : Len(ops[c][k].input) = 0)
        => /\ \A k \in Range(OpKinds) : ~ops[c][k].called
           /\ commit[c] = [state |-> "resolved", objectIDs |-> <<>>]

\* A call whose diff found nothing to do, and a call with an add but no
\* update and no delete.
C7_Witness ==
  /\ callSeen[1].kind = "hits"
  /\ callBatch[1] = NoResults
  /\ commit[1].state = "resolved"
  /\ ops[2]["addObjects"].called
  /\ ops[2]["updateObjects"].state = "skipped"
  /\ ops[2]["deleteObjects"].state = "skipped"

\* C8: indexObjects resolves only if all three operations succeeded, with
\* the concatenation of the lists of add, update and delete; if an
\* operation fails, it is rejected and yields no list.
C8_CommitAllOrError ==
  \A c \in Calls :
     /\ commit[c].state = "resolved"
        => /\ \A k \in Range(OpKinds) : ops[c][k].state \in {"ok", "skipped"}
           /\ commit[c].objectIDs =
                ops[c]["addObjects"].objectIDs
                \o ops[c]["updateObjects"].objectIDs
                \o ops[c]["deleteObjects"].objectIDs
     /\ (\E k \in Range(OpKinds) : ops[c][k].state = "failed")
        => /\ commit[c] = [state |-> "rejected", objectIDs |-> <<>>]
           /\ callPc[c] = "caught"

\* A commit of an add, an update and a delete that resolved, and a commit
\* whose delete failed after its add had succeeded.
C8_Witness ==
  /\ commit[1].state = "resolved"
  /\ \A k \in Range(OpKinds) : ops[1][k].state = "ok"
  /\ Len(commit[1].objectIDs) = 3
  /\ ops[2]["deleteObjects"].state = "failed"
  /\ ops[2]["addObjects"].state = "ok"
  /\ commit[2].state = "rejected"

(***************************************************************************)
(* Claims about a sync run (checked under SpecSync).                       *)
(***************************************************************************)
RECURSIVE sumUpTo(_, _)
sumUpTo(f, n) == IF n = 0 THEN 0 ELSE f[n] + sumUpTo(f, n - 1)
\* The scans of the destination index started in the run.
TotalScans == sumUpTo(browseCount, MaxCalls)
\* The object was stored during the run.
CreatedInRun(hit) == PosOf(hit.objectID) > index0
\* An index operation of the group's pipeline has been started.
PipelineStarted(g) ==
  \/ callPc[g] # "idle"
  \/ browseCount[g] > 0
  \/ \E k \in Range(OpKinds) : ops[g][k].called
ContentTypesFetched == {content[g].type : g \in 1..Len(content)}

\* C6: within one sync run the destination index is scanned at most once,
\* all per-type diffs use that same snapshot, and no snapshot used by a
\* diff shows a record created during the run.
C6_OneScanPerRun ==
  /\ TotalScans <= 1
  /\ \A c, b \in Calls :
        (callSeen[c].kind = "hits" /\ callSeen[b].kind = "hits")
        => callSeen[c].hits = callSeen[b].hits
  /\ \A c \in Calls :
        callSeen[c].kind = "hits"
        => \A n \in 1..Len(callSeen[c].hits) : ~CreatedInRun(callSeen[c].hits[n])

\* C9: once the run's then-callback has returned, the observer has been
\* invoked exactly once for every content type given to sync, with that
\* type's flattened records, and no index operation of a type's pipeline
\* is started before the observer has been invoked for that type.
C9_ObserverOncePerType ==
  /\ syncPc = "done" =>
        \A t \in Range(contentTypes) : Len(observed[t]) = 1
  /\ \A g \in 1..Len(content) :
        /\ Len(observed[content[g].type]) >= 1
           => observed[content[g].type][1] = content[g].entries
        /\ PipelineStarted(g) => Len(observed[content[g].type]) = 1

(***************************************************************************)
(* Claims about the flattener (checked under SpecFlatten).                 *)
(***************************************************************************)
\* The record the n-th returned reference leads to.
FlatRecord(n) == heap[localizedEntries[n]].props

\* C10: flattening an entry against N fallback groups yields N records,
\* the i-th with the first code of the i-th group as its locale and its
\* fields resolved in the i-th group's fallback order; for N >= 2 they are
\* distinct records.
C10_OneRecordPerGroup ==
  flatPc = "done" =>
    /\ Len(localizedEntries) = Len(locales)
    /\ \A i \in 1..Len(localizedEntries) :
          /\ FlatRecord(i).locale = locales[i][1]
          /\ FlatRecord(i).title = getLocaleString(rawEntry.fields.title, locales[i])
    /\ \A i, j \in 1..Len(localizedEntries) :
          i # j => localizedEntries[i] # localizedEntries[j]

(***************************************************************************)
(* The fingerprint (checked under SpecDiff).                               *)
(***************************************************************************)
SamePair(entry, hit) == entry.id = hit.id /\ entry.locale = hit.locale

\* C11: two records have equal fingerprints if and only if their
\* (id, locale) pairs are equal, so the diff never attaches a hit's
\* objectID to an incoming record with a different (id, locale).
C11_FingerprintInjective ==
  DiffDone =>
    /\ \A i \in 1..Len(data), j \in 1..Len(hits) :
          SameKey(data[i], hits[j]) <=> SamePair(data[i], hits[j])
    /\ \A i \in 1..Len(data) :
          HasObjectID(data[i]) =>
             \A j \in 1..Len(hits) :
                hits[j].objectID = data[i].objectID => SamePair(data[i], hits[j])

(***************************************************************************)
(* Claims about failures in a sync run (checked under SpecSync).           *)
(***************************************************************************)
\* The pipeline of call c has failed: its chain was rejected.
Failed(c) == chainPromise(callPc[c]) = "rejected"
\* Everything the pipeline of call c consists of.
Pipeline(c) ==
  <<callPc[c], callInst[c], callFound[c], callData[c], callType[c], callSeen[c],
    callBatch[c], ops[c], commit[c], cachedResults[newAlgolia(c)],
    browser[newAlgolia(c)], browseCount[newAlgolia(c)]>>
\* The step stores or removes objects only by completing a bulk operation.
AppliesAnOperation ==
  \E c \in Calls, k \in Range(OpKinds) :
     ops[c][k].state = "pending" /\ ops'[c][k].state = "ok"

\* C12, in a state: a snapshot error a pipeline got comes from the scan it
\* started itself, and a pipeline whose snapshot is there or whose bulk
\* operation is pending can take its next step although another pipeline
\* has failed.
C12_OthersNotHalted ==
  \A g, h \in Calls :
     g # h =>
        /\ callSeen[h].kind = "error" => callFound[h] = "null"
        /\ (Failed(g) /\ callPc[h] = "waiting"
                      /\ cachedResults[callInst[h]] = "resolved")
           => ENABLED ThenCallback(h)
        /\ (Failed(g) /\ ~MicrotaskPending)
           => \A k \in Range(OpKinds) :
                 ops[h][k].state = "pending" => ENABLED OperationSucceeds(h, k)

\* C12, in a step: the step in which one pipeline fails changes nothing of
\* any other pipeline, and the index changes only by a bulk operation
\* being applied (nothing applied is rolled back).
C12_FailureStaysLocal ==
  /\ \A g, h \in Calls :
        (g # h /\ ~Failed(g) /\ chainPromise(callPc'[g]) = "rejected")
        => Pipeline(h)' = Pipeline(h)
  /\ (index' # index \/ removed' # removed) => AppliesAnOperation

\* C12: a failure of one content type's pipeline (scan or bulk operation)
\* does not halt another content type's pipeline of the same run, and
\* nothing already applied is rolled back.
C12_FailureDoesNotHaltOthers ==
  /\ []C12_OthersNotHalted
  /\ [][C12_FailureStaysLocal]_vars

\* One pipeline failed on its scan; the other one, of the same run, has
\* run its diff after that and its addObjects was applied.
C12_Witness ==
  /\ reports[1] = "logged" /\ callSeen[1].kind = "error"
  /\ callSeen[2].kind = "hits"
  /\ ops[2]["addObjects"].state = "ok"
  /\ Len(index) > index0

\* C13: every failure inside a content type's indexing (snapshot scan,
\* bulk add, update or delete) rejects the promise indexData returned, and
\* the `Indexed type' report of singleCallback does not run for that type.
C13_FailuresReachOrchestrator ==
  \A c \in Calls :
     Failed(c) => /\ indexDataPromise(c) = "rejected"
                  /\ reports[c] # "logged"

\* C14: in the sync run the diff of content type T is restricted to the
\* hits of type T, so a snapshot hit of type T that matches no incoming
\* record of the group is placed in `deleted' and a bulk delete is issued.
C14_StaleHitsDeleted ==
  \A g \in 1..Len(content) :
     callSeen[g].kind = "hits" =>
        \A j \in 1..Len(callSeen[g].hits) :
           LET hit == callSeen[g].hits[j]
           IN (/\ hit.contentType = content[g].type
               /\ \A i \in 1..Len(content[g].entries) :
                     ~SameKey(content[g].entries[i], hit))
              => /\ hit.objectID \in Range(callBatch[g].deleted)
                 /\ ops[g]["deleteObjects"].called

(***************************************************************************)
(* Claims about errors and ordering inside indexData (SpecAlgolia).        *)
(***************************************************************************)
\* The call was made on the instance and is not over.
Awaits(c, a) == callPc[c] # "idle" /\ callInst[c] = a

\* C15: when the scan of an instance has emitted an error, every call that
\* awaits its snapshot (made before the error or after it) is rejected:
\* its diff does not run, it has no batch and none of its three bulk
\* operations is issued.
C15_ScanErrorRejectsAll ==
  \A c \in Calls :
     /\ (Awaits(c, 1) /\ cachedResults[1] = "rejected")
        => /\ callPc[c] \in {"waiting", "caught"}
           /\ callPc[c] = "caught" => callSeen[c].kind = "error"
     /\ (callFound[c] = "rejected" \/ callSeen[c].kind = "error")
        => /\ callSeen[c].kind # "hits"
           /\ callBatch[c] = NoResults
           /\ ops[c] = NoOperations
           /\ commit[c] = NoCommit

\* The scan delivered a page and then failed; a call made before the error
\* and a call made after it were both rejected.
C15_Witness ==
  /\ cachedResults[1] = "rejected"
  /\ Len(browser[1].results) > 0
  /\ callFound[1] = "null" /\ callSeen[1].kind = "error"
  /\ callFound[2] = "rejected" /\ callSeen[2].kind = "error"
  /\ Len(callData[2]) > 0

\* The list of the batch an operation works on.
BatchOf(c, k) ==
  IF k = "addObjects" THEN callBatch[c].created
  ELSE IF k = "updateObjects" THEN callBatch[c].updated
  ELSE callBatch[c].deleted

\* C16, in a state: once the diff of a call has run, every operation with
\* a non-empty list has been issued; and an operation still pending can be
\* applied although another operation of the call has failed.
C16_AllIssued ==
  \A c \in Calls :
     /\ callSeen[c].kind = "hits"
        => \A k \in Range(OpKinds) :
              /\ Len(BatchOf(c, k)) > 0 => ops[c][k].called
              /\ Len(BatchOf(c, k)) = 0 => ops[c][k].state = "skipped"
     /\ \A k, m \in Range(OpKinds) :
           (ops[c][k].state = "failed" /\ ops[c][m].state = "pending"
              /\ ~MicrotaskPending)
           => ENABLED OperationSucceeds(c, m)

\* C16, in a step: the operations of a call are all issued in one step,
\* none of them with an outcome yet; and the index changes only by an
\* operation being applied, never by a compensation.
C16_IssuedTogether ==
  /\ \A c \in Calls :
        (ops[c] = NoOperations /\ ops'[c] # NoOperations)
        => \A k \in Range(OpKinds) : ops'[c][k].state \in {"pending", "skipped"}
  /\ \A c \in Calls, k \in Range(OpKinds) :
        (ops[c][k].state = "ok" /\ ops[c] # ops'[c]) => ops'[c][k] = ops[c][k]
  /\ (index' # index \/ removed' # removed) => AppliesAnOperation

\* C16: indexObjects issues all bulk operations with non-empty input
\* before the outcome of any of them is known; the failure of one never
\* prevents another from being issued or applied, and nothing is
\* compensated after a failure.
C16_ConcurrentNoCompensation ==
  /\ []C16_AllIssued
  /\ [][C16_IssuedTogether]_vars

\* A call whose delete failed and whose create was applied: the created
\* object is in the index, the commit is rejected.
C16_Witness ==
  /\ ops[1]["deleteObjects"].state = "failed"
  /\ ops[1]["addObjects"].state = "ok"
  /\ Len(index) > index0
  /\ commit[1].state = "rejected"
  /\ callPc[1] = "caught"

(***************************************************************************)
(* Ordering inside and across the pipelines of a run (SpecSync).           *)
(***************************************************************************)
Issued(c) == \E k \in Range(OpKinds) : ops[c][k].called

\* C17, in a state: a call that has its diff result got it from a scan
\* that has ended successfully, with all the hits of the scan; bulk
\* operations are issued only for a call whose diff has produced its batch.
C17_OrderInState ==
  \A c \in Calls :
     /\ callSeen[c].kind = "hits"
        => /\ cachedResults[callInst[c]] = "resolved"
           /\ callSeen[c].hits = browser[callInst[c]].results
     /\ callBatch[c] # NoResults => callSeen[c].kind = "hits"
     /\ ops[c] # NoOperations => callSeen[c].kind = "hits"

\* C17, in a step: the diff of a call runs in a state where its scan has
\* already ended and nothing of its commit has been issued.
C17_OrderInStep ==
  \A c \in Calls :
     (callSeen[c].kind # "hits" /\ callSeen'[c].kind = "hits")
     => /\ cachedResults[callInst[c]] = "resolved"
        /\ ops[c] = NoOperations

\* C17: within one pipeline no diff result is computed before the scan has
\* ended successfully and no bulk call is issued before the diff has
\* produced its batch; across pipelines there is no such order (the
\* witness: one pipeline commits while the other's scan is running).
C17_ScanThenDiffThenCommit ==
  /\ []C17_OrderInState
  /\ [][C17_OrderInStep]_vars

\* The first group's pipeline has issued a bulk operation while the scan
\* of the second group's pipeline has not ended.
C17_Witness ==
  /\ Issued(1) /\ callSeen[1].kind = "hits"
  /\ callPc[2] = "waiting" /\ cachedResults[newAlgolia(2)] = "pending"

(***************************************************************************)
(* Claims about locale resolution (checked under SpecFlatten).             *)
(***************************************************************************)
\* The value under the first code of the group that the mapping has,
\* undefined when it has none of them.
RECURSIVE FirstPresent(_, _)
FirstPresent(field, group) ==
  IF group = <<>> THEN Undefined
  ELSE IF Head(group) \in DOMAIN field THEN field[Head(group)]
  ELSE FirstPresent(field, Tail(group))

\* C19: when the locale configuration is empty or absent, flattening an
\* entry completes without an error and yields exactly one record.
C19_NoLocalesOneRecord ==
  (flatPc \in {"done", "threw"} /\ (~hasLocales \/ locales = <<>>)) =>
     /\ flatPc = "done"
     /\ Len(localizedEntries) = 1

\* C18: the value a field is resolved to for a fallback group is the one
\* stored under the first code of the group present in the field's
\* mapping, whatever that value is (the empty string too), and undefined
\* only when none of the codes is present; every field on its own.
C18_FirstPresentValue ==
  (flatPc \in {"forEach", "done"} /\ Len(localizedEntries) >= 1) =>
     /\ getLocaleString(rawEntry.fields.title, locales[1])
           = FirstPresent(rawEntry.fields.title, locales[1])
     /\ heap[localizedEntries[1]].props.title
           = FirstPresent(rawEntry.fields.title, locales[1])
     /\ heap[localizedEntries[1]].props.contentType = rawEntry.sys.contentType

(***************************************************************************)
(* Two sync calls on one instance (checked under SpecInstance).            *)
(***************************************************************************)
\* C20: when the second sync call, with another index name or observer, is
\* made before the first call's fetch has resolved, the records of each
\* call still go to the observer and into the index given to that call.
C20_CallsKeepTheirArguments ==
  (overlap /\ <<runs[1].indexName, runs[1].callback>>
                 # <<runs[2].indexName, runs[2].callback>>) =>
     \A d \in 1..Len(delivered) :
        /\ delivered[d].callback = runs[delivered[d].run].callback
        /\ delivered[d].indexName = runs[delivered[d].run].indexName

=============================================================================
